---- MODULE Spec2Model ----
(***************************************************************************)
(* A model of src/Transpiler.ts: the LuaTranspiler that lowers a typed     *)
(* TypeScript AST to Lua text.                                             *)
(*                                                                         *)
(* AST nodes are records with a "kind" field named after ts.SyntaxKind;    *)
(* an optional child (initializer, elseStatement, propertyName, ...) is a  *)
(* field that is absent from the record.  Lua text is a sequence of string *)
(* chunks whose concatenation (Flatten) is the JavaScript string; the      *)
(* newline "\n" and the four-space indent unit are chunks of their own, so *)
(* that lines and their indentation can be inspected.  Every emitter is an *)
(* operator of the same name that takes the emitter's fields (st) and      *)
(* returns the text, the fields afterwards and the exception thrown, if    *)
(* any.                                                                    *)
(***************************************************************************)
EXTENDS Integers, Sequences, FiniteSets, TLC

VARIABLES
    file,               \* the ts.SourceFile handed to transpileSourceFile
    pos,                \* transpileBlock: index of the next child to visit
    result,             \* transpileBlock: the local `result` accumulator
    indent,             \* LuaTranspiler.indent
    genVarCounter,      \* LuaTranspiler.genVarCounter
    transpilingSwitch,  \* LuaTranspiler.transpilingSwitch
    status,             \* "running", "returned" or "thrown"
    output,             \* the string transpileSourceFile returned
    error               \* the exception transpileSourceFile threw

vars == <<file, pos, result, indent, genVarCounter, transpilingSwitch,
          status, output, error>>

-----------------------------------------------------------------------------
(* Text *)

NL == "\n"

IndentUnit == "    "

RECURSIVE Flatten(_)
Flatten(t) == IF t = <<>> THEN "" ELSE Head(t) \o Flatten(Tail(t))

RECURSIVE join(_, _)
join(parts, sep) ==
    IF parts = <<>> THEN <<>>
    ELSE IF Len(parts) = 1 THEN parts[1]
    ELSE parts[1] \o <<sep>> \o join(Tail(parts), sep)

-----------------------------------------------------------------------------
(* Exceptions and emitter results *)

NoError == [name |-> "none"]

TranspileError(message, node) ==
    [name |-> "TranspileError", message |-> message, node |-> node]

Ok(text, st) == [text |-> text, st |-> st, err |-> NoError]

Throw(message, node, st) ==
    [text |-> <<>>, st |-> st, err |-> TranspileError(message, node)]

Failed(r) == r.err # NoError

\* What the JavaScript runtime throws when a property of undefined is read.
TypeError(message) ==
    [name |-> "TypeError", message |-> message, node |-> [kind |-> "undefined"]]

ThrowTypeError(message, st) == [text |-> <<>>, st |-> st, err |-> TypeError(message)]

-----------------------------------------------------------------------------
(* The type checker and TSHelper *)

\* A ts.Type: its TypeFlags bits, what its symbol is, and its decorators.
Type(flags, symbol) == [flags |-> flags, symbol |-> symbol, decorators |-> {}]

StringType        == Type({"String"}, "none")
StringLiteralType == Type({"StringLiteral"}, "none")
NumberType        == Type({"Number"}, "none")
NumberLiteralType == Type({"NumberLiteral"}, "none")
AnyType           == Type({"Any"}, "none")
ArrayType         == Type({"Object"}, "Array")
TupleType         == Type({"Object"}, "Tuple")
ObjectType        == Type({"Object"}, "Object")

getTypeAtLocation(node) ==
    IF "type" \in DOMAIN node THEN node.type ELSE AnyType

isArrayType(type) == "Object" \in type.flags /\ type.symbol = "Array"

isTupleType(type) == "Object" \in type.flags /\ type.symbol = "Tuple"

isStringType(type) == "String" \in type.flags

isCompileMembersOnlyEnum(type) == "CompileMembersOnly" \in type.decorators

isPureAbstractClass(type) == "PureAbstract" \in type.decorators

isExtensionClass(type) == "Extension" \in type.decorators

hasCustomDecorator(type, name) == name \in type.decorators

\* A node's kind is modelled by its name in ts.SyntaxKind, which is what
\* enumName looks up.
enumName(kind) == kind

hasDeclareKeyword(node) ==
    "modifiers" \in DOMAIN node /\ "DeclareKeyword" \in node.modifiers

tokenToString(kind) ==
    CASE kind = "PlusToken"              -> "+"
      [] kind = "MinusToken"             -> "-"
      [] kind = "AsteriskToken"          -> "*"
      [] kind = "LessThanToken"          -> "<"
      [] kind = "EqualsToken"            -> "="
      [] kind = "EqualsEqualsToken"      -> "=="
      [] OTHER                           -> kind

-----------------------------------------------------------------------------
(* Emitter fields *)

pushIndent(st) == [st EXCEPT !.indent = @ \o <<IndentUnit>>]

popIndent(st) ==
    [st EXCEPT !.indent = SubSeq(@, 2, Len(@))]

-----------------------------------------------------------------------------
(* Expressions *)

\* The absent optional argument (`context?`, `brackets?`).
undefined == [kind |-> "undefined"]

RECURSIVE transpileBlock(_, _)
RECURSIVE transpileNodes(_, _, _, _)
RECURSIVE transpileNode(_, _)
RECURSIVE transpileStatement(_, _)
RECURSIVE transpileExpression(_, _, _)
RECURSIVE transpileBinaryExpression(_, _, _)
RECURSIVE transpileConditionalExpression(_, _, _)
RECURSIVE transpileCallExpression(_, _)
RECURSIVE transpileStringCallExpression(_, _)
RECURSIVE transpileArrayCallExpression(_, _)
RECURSIVE transpileArguments(_, _, _)
RECURSIVE transpileArgumentsFrom(_, _, _, _)
RECURSIVE transpilePropertyAccessExpression(_, _)
RECURSIVE transpileStringProperty(_, _)
RECURSIVE transpileArrayProperty(_, _)
RECURSIVE transpileElementAccessExpression(_, _)
RECURSIVE transpileArrowFunction(_, _)
RECURSIVE transpileSwitch(_, _)
RECURSIVE transpileClauses(_, _, _, _, _)
RECURSIVE transpileIf(_, _)
RECURSIVE transpileWhile(_, _)
RECURSIVE transpileVariableStatement(_, _)
RECURSIVE transpileDeclarations(_, _, _, _)
RECURSIVE transpileVariableDeclaration(_, _)
RECURSIVE transpileHeritage(_, _, _)
RECURSIVE transpileFields(_, _, _, _, _)
RECURSIVE transpileMethods(_, _, _, _, _)
RECURSIVE transpileMethodDeclaration(_, _, _)
RECURSIVE transpileConstructor(_, _, _, _)
RECURSIVE transpileClass(_, _)

\* r is what an emitter call produced: an exception leaves the caller, and
\* otherwise the caller goes on (K) with the text and the fields.
Then(r, K(_)) == IF Failed(r) THEN r ELSE K(r)

transpileOperator(operator) ==
    CASE operator = "EqualsEqualsEqualsToken"            -> "=="
      [] operator = "ExclamationEqualsToken"             -> "~="
      [] operator = "ExclamationEqualsEqualsToken"       -> "~="
      [] OTHER                                           -> tokenToString(operator)

\* The switch over node.operatorToken.kind, for every case but the early
\* return of the string `+`.
rewriteOperator(op, lhs, rhs) ==
    CASE op = "PlusEqualsToken"  -> lhs \o <<"=">> \o lhs \o <<"+">> \o rhs
      [] op = "MinusEqualsToken" -> lhs \o <<"=">> \o lhs \o <<"-">> \o rhs
      [] op = "AmpersandAmpersandToken" -> lhs \o <<" and ">> \o rhs
      [] op = "BarBarToken"      -> lhs \o <<" or ">> \o rhs
      [] op = "AmpersandToken"   ->
            <<"bit.band(">> \o lhs \o <<",">> \o rhs \o <<")">>
      [] op = "BarToken"         ->
            <<"bit.bor(">> \o lhs \o <<",">> \o rhs \o <<")">>
      [] OTHER -> lhs \o <<transpileOperator(op)>> \o rhs

\* The test of `case ts.SyntaxKind.PlusToken`.
isStringPlus(node) ==
    /\ node.operatorToken = "PlusToken"
    /\ \/ "String" \in getTypeAtLocation(node.left).flags
       \/ node.left.kind = "StringLiteral"

\* transpileBinaryExpression, were it to put the brackets around its result
\* whether or not they were asked for.
transpileBinaryExpression_AlwaysBrackets(node, brackets, st) ==
    Then(transpileExpression(node.left, TRUE, st), LAMBDA lhs :
    Then(transpileExpression(node.right, TRUE, lhs.st), LAMBDA rhs :
        IF isStringPlus(node)
        THEN Ok(lhs.text \o <<"..">> \o rhs.text, rhs.st)
        ELSE Ok(<<"(">> \o rewriteOperator(node.operatorToken, lhs.text, rhs.text)
                  \o <<")">>, rhs.st)))

transpileBinaryExpression(node, brackets, st) ==
    Then(transpileExpression(node.left, TRUE, st), LAMBDA lhs :
    Then(transpileExpression(node.right, TRUE, lhs.st), LAMBDA rhs :
        IF isStringPlus(node)
        THEN Ok(lhs.text \o <<"..">> \o rhs.text, rhs.st)
        ELSE IF brackets
        THEN Ok(<<"(">> \o rewriteOperator(node.operatorToken, lhs.text, rhs.text)
                  \o <<")">>, rhs.st)
        ELSE Ok(rewriteOperator(node.operatorToken, lhs.text, rhs.text), rhs.st)))

transpileConditionalExpression(node, brackets, st) ==
    Then(transpileExpression(node.condition, FALSE, st), LAMBDA condition :
    Then(transpileExpression(node.whenTrue, FALSE, condition.st), LAMBDA val1 :
    Then(transpileExpression(node.whenFalse, FALSE, val1.st), LAMBDA val2 :
        Ok(<<"TS_ITE(">> \o condition.text \o <<",function() return ">>
             \o val1.text \o <<" end, function() return ">> \o val2.text
             \o <<" end)">>, val2.st))))

\* params.forEach(param => parameters.push(...)) from element i on; the text
\* of the result is the `parameters` array.
transpileArgumentsFrom(params, i, parameters, st) ==
    IF i > Len(params) THEN Ok(parameters, st)
    ELSE Then(transpileExpression(params[i], FALSE, st), LAMBDA param :
            transpileArgumentsFrom(params, i + 1, Append(parameters, param.text),
                                   param.st))

transpileArguments(params, context, st) ==
    Then(IF context # undefined
         THEN Then(transpileExpression(context, FALSE, st), LAMBDA c :
                  Ok(<<c.text>>, c.st))
         ELSE Ok(<<>>, st), LAMBDA first :
    Then(transpileArgumentsFrom(params, 1, first.text, first.st), LAMBDA parameters :
        Ok(join(parameters.text, ","), parameters.st)))

\* transpileStringCallExpression, were it to look at the name of the function
\* before it lowers the arguments.
transpileStringCallExpression_NameFirst(node, st) ==
    IF node.expression.name.escapedText \notin {"replace", "indexOf"}
    THEN Throw("Unsupported string function: "
                 \o node.expression.name.escapedText, node, st)
    ELSE Then(transpileArguments(node.arguments, undefined, st), LAMBDA params :
         Then(transpileExpression(node.expression.expression, FALSE, params.st),
              LAMBDA caller :
             Ok(<<"string.sub(">> \o caller.text \o <<",">> \o params.text
                  \o <<")">>, caller.st)))

transpileStringCallExpression(node, st) ==
    Then(transpileArguments(node.arguments, undefined, st), LAMBDA params :
    Then(transpileExpression(node.expression.expression, FALSE, params.st),
         LAMBDA caller :
        CASE node.expression.name.escapedText = "replace" ->
                Ok(<<"string.sub(">> \o caller.text \o <<",">> \o params.text
                     \o <<")">>, caller.st)
          [] node.expression.name.escapedText = "indexOf" ->
                IF Len(node.arguments) = 1
                THEN Ok(<<"(string.find(">> \o caller.text \o <<",">>
                          \o params.text \o <<",1,true) or 0)-1">>, caller.st)
                ELSE Ok(<<"(string.find(">> \o caller.text \o <<",">>
                          \o params.text \o <<"+1,true) or 0)-1">>, caller.st)
          [] OTHER ->
                Throw("Unsupported string function: "
                        \o node.expression.name.escapedText, node, caller.st)))

arrayFunction(name) ==
    CASE name = "push"    -> "table.insert"
      [] name = "forEach" -> "TS_forEach"
      [] name = "map"     -> "TS_map"
      [] name = "filter"  -> "TS_filter"
      [] name = "some"    -> "TS_some"
      [] name = "every"   -> "TS_every"
      [] name = "slice"   -> "TS_slice"
      [] OTHER            -> "unsupported"

transpileArrayCallExpression(node, st) ==
    Then(transpileArguments(node.arguments, undefined, st), LAMBDA params :
    Then(transpileExpression(node.expression.expression, FALSE, params.st),
         LAMBDA caller :
        IF arrayFunction(node.expression.name.escapedText) # "unsupported"
        THEN Ok(<<arrayFunction(node.expression.name.escapedText), "(">>
                  \o caller.text \o <<", ">> \o params.text \o <<")">>, caller.st)
        ELSE Throw("Unsupported array function: "
                     \o node.expression.name.escapedText, node, caller.st)))

\* switch (type.flags) of transpileCallExpression and
\* transpilePropertyAccessExpression: which primitive override applies.
primitiveOverride(type) ==
    IF type.flags = {"String"} \/ type.flags = {"StringLiteral"} THEN "string"
    ELSE IF type.flags = {"Object"} /\ isArrayType(type) THEN "array"
    ELSE "none"

transpileCallExpression(node, st) ==
    IF /\ node.expression.kind = "PropertyAccessExpression"
       /\ primitiveOverride(getTypeAtLocation(node.expression.expression)) = "string"
    THEN transpileStringCallExpression(node, st)
    ELSE IF /\ node.expression.kind = "PropertyAccessExpression"
            /\ primitiveOverride(getTypeAtLocation(node.expression.expression))
                 = "array"
    THEN transpileArrayCallExpression(node, st)
    ELSE Then(transpileExpression(node.expression, FALSE, st), LAMBDA callPath :
         Then(transpileArguments(
                  node.arguments,
                  IF node.expression.kind = "PropertyAccessExpression"
                  THEN node.expression.expression
                  ELSE IF node.expression.kind = "SuperKeyword"
                  THEN [kind |-> "ThisKeyword"]
                  ELSE undefined,
                  callPath.st), LAMBDA params :
             IF node.expression.kind = "SuperKeyword"
             THEN Ok(<<"self.__base.constructor(">> \o params.text \o <<")">>,
                     params.st)
             ELSE Ok(callPath.text \o <<"(">> \o params.text \o <<")">>,
                     params.st)))

transpileStringProperty(node, st) ==
    IF node.name.escapedText = "length"
    THEN Then(transpileExpression(node.expression, FALSE, st), LAMBDA e :
             Ok(<<"#">> \o e.text, e.st))
    ELSE Throw("Unsupported string property: " \o node.name.escapedText, node, st)

transpileArrayProperty(node, st) ==
    IF node.name.escapedText = "length"
    THEN Then(transpileExpression(node.expression, FALSE, st), LAMBDA e :
             Ok(<<"#">> \o e.text, e.st))
    ELSE Throw("Unsupported array property: " \o node.name.escapedText, node, st)

transpilePropertyAccessExpression(node, st) ==
    IF primitiveOverride(getTypeAtLocation(node.expression)) = "string"
    THEN transpileStringProperty(node, st)
    ELSE IF primitiveOverride(getTypeAtLocation(node.expression)) = "array"
    THEN transpileArrayProperty(node, st)
    ELSE IF isCompileMembersOnlyEnum(getTypeAtLocation(node.expression))
    THEN Ok(<<node.name.text>>, st)
    ELSE Then(transpileExpression(node.expression, FALSE, st), LAMBDA path :
             Ok(path.text \o <<".", node.name.text>>, path.st))

\* transpileElementAccessExpression, were it to leave the index as it is for
\* every container.
transpileElementAccessExpression_NoOffset(node, st) ==
    Then(transpileExpression(node.expression, FALSE, st), LAMBDA element :
    Then(transpileExpression(node.argumentExpression, FALSE, element.st),
         LAMBDA index :
        Ok(element.text \o <<"[">> \o index.text \o <<"]">>, index.st)))

transpileElementAccessExpression(node, st) ==
    Then(transpileExpression(node.expression, FALSE, st), LAMBDA element :
    Then(transpileExpression(node.argumentExpression, FALSE, element.st),
         LAMBDA index :
        IF \/ isArrayType(getTypeAtLocation(node.expression))
           \/ isTupleType(getTypeAtLocation(node.expression))
        THEN Ok(element.text \o <<"[">> \o index.text \o <<"+1]">>, index.st)
        ELSE IF isStringType(getTypeAtLocation(node.expression))
        THEN Ok(<<"string.sub(">> \o element.text \o <<",">> \o index.text
                  \o <<"+1,">> \o index.text \o <<"+1)">>, index.st)
        ELSE Ok(element.text \o <<"[">> \o index.text \o <<"]">>, index.st)))

paramNames(parameters) ==
    join([i \in 1..Len(parameters) |-> <<parameters[i].name.escapedText>>], ",")

transpileArrowFunction(node, st) ==
    IF node.body.kind = "Block"
    THEN Then(transpileBlock(node.body, pushIndent(st)), LAMBDA body :
             Ok(<<"function(">> \o paramNames(node.parameters) \o <<")", NL>>
                  \o body.text \o popIndent(body.st).indent \o <<"end", NL>>,
                popIndent(body.st)))
    ELSE Then(transpileExpression(node.body, FALSE, st), LAMBDA e :
             Ok(<<"function(">> \o paramNames(node.parameters) \o <<") return ">>
                  \o e.text \o <<" end">>, e.st))

transpileExpression(node, brackets, st) ==
    CASE node = undefined ->
            ThrowTypeError("Cannot read property 'kind' of undefined", st)
      [] node.kind = "BinaryExpression" ->
            transpileBinaryExpression(node, brackets, st)
      [] node.kind = "ConditionalExpression" ->
            transpileConditionalExpression(node, brackets, st)
      [] node.kind = "CallExpression" -> transpileCallExpression(node, st)
      [] node.kind = "PropertyAccessExpression" ->
            transpilePropertyAccessExpression(node, st)
      [] node.kind = "ElementAccessExpression" ->
            transpileElementAccessExpression(node, st)
      [] node.kind = "Identifier" -> Ok(<<node.text>>, st)
      [] node.kind = "StringLiteral" -> Ok(<<"\"", node.text, "\"">>, st)
      [] node.kind = "NumericLiteral" -> Ok(<<node.text>>, st)
      [] node.kind = "TrueKeyword" -> Ok(<<"true">>, st)
      [] node.kind = "FalseKeyword" -> Ok(<<"false">>, st)
      [] node.kind = "NullKeyword" -> Ok(<<"nil">>, st)
      [] node.kind = "ThisKeyword" -> Ok(<<"self">>, st)
      [] node.kind \in {"FunctionExpression", "ArrowFunction"} ->
            transpileArrowFunction(node, st)
      [] node.kind = "ParenthesizedExpression" ->
            Then(transpileExpression(node.expression, FALSE, st), LAMBDA e :
                Ok(<<"(">> \o e.text \o <<")">>, e.st))
      [] node.kind = "SuperKeyword" -> Ok(<<"self.__base">>, st)
      [] node.kind \in {"TypeAssertionExpression", "AsExpression"} ->
            transpileExpression(node.expression, FALSE, st)
      [] OTHER ->
            Throw("Unsupported expression kind: " \o enumName(node.kind), node, st)

-----------------------------------------------------------------------------
(* Statements *)

transpileImport(node, st) ==
    Then(transpileExpression(node.moduleSpecifier, FALSE, st), LAMBDA name :
        IF node.importClause.namedBindings.kind = "NamespaceImport"
        THEN Ok(<<"{$imports.name.escapedText} = require(">> \o name.text
                  \o <<")">>, name.st)
        ELSE IF node.importClause.namedBindings.kind = "NamedImports"
        THEN IF \E i \in 1..Len(node.importClause.namedBindings.elements) :
                    "propertyName"
                        \in DOMAIN node.importClause.namedBindings.elements[i]
             THEN Throw("Renaming of individual imported objects is not allowed",
                        node, name.st)
             ELSE Ok(<<"require(">> \o name.text \o <<")">>, name.st)
        ELSE Throw("Unsupported import type.", node, name.st))

\* The characters of the text of a numeric literal: a single digit, or 1.5.
Characters(text) == IF text = "1.5" THEN <<"1", ".", "5">> ELSE <<text>>

IsDigit(c) == \E v \in 0..9 : ToString(v) = c

DigitValue(c) == CHOOSE v \in 0..9 : ToString(v) = c

\* parseInt: the integer that the leading digits of the text spell (the texts
\* here start with a digit); what follows the digits is ignored.
RECURSIVE parseDigits(_, _)
parseDigits(chars, val) ==
    IF chars = <<>> \/ ~IsDigit(Head(chars)) THEN val
    ELSE parseDigits(Tail(chars), 10 * val + DigitValue(Head(chars)))

parseInt(text) == parseDigits(Characters(text), 0)

\* The line of one enum member, for the running value val.
transpileEnumMember(node, member, membersOnly, val, st) ==
    IF membersOnly
    THEN st.indent \o <<member.name.escapedText, "=", ToString(val), NL>>
    ELSE st.indent \o <<node.name.escapedText, ".", member.name.escapedText, "=",
                        ToString(val), NL>>

\* node.members.forEach(member => ...) from member i on; val and acc are the
\* locals `val` and `result`.
RECURSIVE transpileEnumMembers(_, _, _, _, _, _)
transpileEnumMembers(node, membersOnly, i, val, acc, st) ==
    IF i > Len(node.members) THEN Ok(acc, st)
    ELSE IF "initializer" \in DOMAIN node.members[i]
    THEN IF node.members[i].initializer.kind = "NumericLiteral"
         THEN transpileEnumMembers(
                  node, membersOnly, i + 1,
                  parseInt(node.members[i].initializer.text) + 1,
                  acc \o transpileEnumMember(
                             node, node.members[i], membersOnly,
                             parseInt(node.members[i].initializer.text), st),
                  st)
         ELSE Throw("Only numeric initializers allowed for enums.", node, st)
    ELSE transpileEnumMembers(
             node, membersOnly, i + 1, val + 1,
             acc \o transpileEnumMember(node, node.members[i], membersOnly, val, st),
             st)

transpileEnum(node, st) ==
    transpileEnumMembers(
        node, isCompileMembersOnlyEnum(getTypeAtLocation(node)), 1, 0,
        IF isCompileMembersOnlyEnum(getTypeAtLocation(node)) THEN <<>>
        ELSE st.indent \o <<node.name.escapedText, "={}", NL>>,
        st)

transpileReturn(node, st) ==
    Then(transpileExpression(IF "expression" \in DOMAIN node
                             THEN node.expression ELSE undefined, FALSE, st),
         LAMBDA e : Ok(<<"return ">> \o e.text, e.st))

transpileBreak(st) ==
    IF st.transpilingSwitch
    THEN Ok(st.indent \o <<"goto switchDone", ToString(st.genVarCounter), NL>>, st)
    ELSE Ok(st.indent \o <<"break", NL>>, st)

transpileStatement(node, st) ==
    IF node.kind = "Block" THEN transpileBlock(node, st)
    ELSE transpileNode(node, st)

transpileIf(node, st) ==
    Then(transpileExpression(node.expression, FALSE, st), LAMBDA condition :
    Then(transpileStatement(node.thenStatement, pushIndent(condition.st)),
         LAMBDA then :
        IF "elseStatement" \in DOMAIN node
        THEN Then(transpileStatement(node.elseStatement,
                                     pushIndent(popIndent(then.st))), LAMBDA else :
                 Ok(condition.st.indent \o <<"if ">> \o condition.text
                      \o <<" then", NL>> \o then.text
                      \o popIndent(then.st).indent \o <<"else", NL>> \o else.text
                      \o popIndent(else.st).indent \o <<"end", NL>>,
                    popIndent(else.st)))
        ELSE Ok(condition.st.indent \o <<"if ">> \o condition.text
                  \o <<" then", NL>> \o then.text
                  \o popIndent(then.st).indent \o <<"end", NL>>,
                popIndent(then.st))))

\* transpileWhile, were it to return without popIndent.
transpileWhile_NoPop(node, st) ==
    Then(transpileExpression(node.expression, FALSE, st), LAMBDA condition :
    Then(transpileStatement(node.statement, pushIndent(condition.st)),
         LAMBDA body :
        Ok(condition.st.indent \o <<"while ">> \o condition.text \o <<" do", NL>>
             \o body.text \o popIndent(body.st).indent \o <<"end", NL>>,
           body.st)))

transpileWhile(node, st) ==
    Then(transpileExpression(node.expression, FALSE, st), LAMBDA condition :
    Then(transpileStatement(node.statement, pushIndent(condition.st)),
         LAMBDA body :
        Ok(condition.st.indent \o <<"while ">> \o condition.text \o <<" do", NL>>
             \o body.text \o popIndent(body.st).indent \o <<"end", NL>>,
           popIndent(body.st))))

\* The if/elseif/else line of the clause at `index` (counted from 0).
transpileClauseHeader(clause, expression, index, st) ==
    IF clause.kind = "CaseClause"
    THEN Then(transpileExpression(clause.expression, TRUE, st), LAMBDA condition :
             Ok(st.indent \o <<IF index = 0 THEN "if" ELSE "elseif", " ">>
                  \o expression \o <<"==">> \o condition.text \o <<" then", NL>>,
                condition.st))
    ELSE Ok(st.indent \o <<"else", NL>>, st)

\* The fallthrough goto that ends the clause at `index`, unless it is the last.
transpileFallthrough(node, index, st) ==
    IF index < Len(node.caseBlock.clauses) - 1
    THEN st.indent
           \o <<"goto switchCase", ToString(st.genVarCounter + index + 1), NL>>
    ELSE <<>>

\* transpileClauses, were it to leave transpilingSwitch set after the
\* statements of a clause.
transpileClauses_NoRestore(node, expression, index, acc, st) ==
    IF index >= Len(node.caseBlock.clauses) THEN Ok(acc, st) ELSE
    Then(transpileClauseHeader(node.caseBlock.clauses[index + 1], expression,
                               index, st), LAMBDA header :
    Then(transpileNodes(node.caseBlock.clauses[index + 1].statements, 1, <<>>,
                        [pushIndent(header.st) EXCEPT !.transpilingSwitch = TRUE]),
         LAMBDA body :
        transpileClauses(
            node, expression, index + 1,
            acc \o header.text
                \o pushIndent(header.st).indent
                \o <<"::switchCase",
                     ToString(pushIndent(header.st).genVarCounter + index),
                     "::", NL>>
                \o body.text
                \o transpileFallthrough(node, index, body.st),
            popIndent(body.st))))

\* clauses.forEach((clause, index) => ...) from the clause at `index` (counted
\* from 0) on; `expression` is the lowered scrutinee, acc the `result` so far.
transpileClauses(node, expression, index, acc, st) ==
    IF index >= Len(node.caseBlock.clauses) THEN Ok(acc, st) ELSE
    Then(transpileClauseHeader(node.caseBlock.clauses[index + 1], expression,
                               index, st), LAMBDA header :
    Then(transpileNodes(node.caseBlock.clauses[index + 1].statements, 1, <<>>,
                        [pushIndent(header.st) EXCEPT !.transpilingSwitch = TRUE]),
         LAMBDA body :
        transpileClauses(
            node, expression, index + 1,
            acc \o header.text
                \o pushIndent(header.st).indent
                \o <<"::switchCase",
                     ToString(pushIndent(header.st).genVarCounter + index),
                     "::", NL>>
                \o body.text
                \o transpileFallthrough(
                       node, index, [body.st EXCEPT !.transpilingSwitch = FALSE]),
            popIndent([body.st EXCEPT !.transpilingSwitch = FALSE]))))

\* transpileSwitch, were it to leave genVarCounter as its clauses left it.
transpileSwitch_NoIncrement(node, st) ==
    Then(transpileExpression(node.expression, TRUE, st), LAMBDA expression :
    Then(transpileClauses(
             node, expression.text, 0,
             expression.st.indent \o <<"-------Switch statement start-------", NL>>,
             expression.st), LAMBDA clauses :
        Ok(clauses.text
             \o clauses.st.indent \o <<"end", NL>>
             \o clauses.st.indent
             \o <<"::switchDone", ToString(clauses.st.genVarCounter), "::", NL>>
             \o clauses.st.indent \o <<"--------Switch statement end--------", NL>>,
           clauses.st)))

transpileSwitch(node, st) ==
    Then(transpileExpression(node.expression, TRUE, st), LAMBDA expression :
    Then(transpileClauses(
             node, expression.text, 0,
             expression.st.indent \o <<"-------Switch statement start-------", NL>>,
             expression.st), LAMBDA clauses :
        Ok(clauses.text
             \o clauses.st.indent \o <<"end", NL>>
             \o clauses.st.indent
             \o <<"::switchDone", ToString(clauses.st.genVarCounter), "::", NL>>
             \o clauses.st.indent \o <<"--------Switch statement end--------", NL>>,
           [clauses.st EXCEPT
               !.genVarCounter = @ + Len(node.caseBlock.clauses)])))

\* node.name.elements.forEach((elem, index) => ...): the text of the element
\* at `index` (counted from 0).
transpileBindingElement(elem, index, parentName, st) ==
    IF "dotDotDotToken" \notin DOMAIN elem
    THEN st.indent \o <<"local ", elem.name.escapedText, " = ">> \o parentName
           \o <<"[", ToString(index + 1), "]", NL>>
    ELSE st.indent \o <<"local ", elem.name.escapedText, " = TS_slice(">>
           \o parentName \o <<", ", ToString(index), ")", NL>>

RECURSIVE transpileBindingElements(_, _, _, _)
transpileBindingElements(elements, index, parentName, st) ==
    IF index >= Len(elements) THEN <<>>
    ELSE transpileBindingElement(elements[index + 1], index, parentName, st)
           \o transpileBindingElements(elements, index + 1, parentName, st)

transpileVariableDeclaration(node, st) ==
    IF node.name.kind = "Identifier"
    THEN IF "initializer" \in DOMAIN node
         THEN Then(transpileExpression(node.initializer, FALSE, st), LAMBDA value :
                  Ok(<<"local ", node.name.escapedText, " = ">> \o value.text,
                     value.st))
         ELSE Ok(<<"local ", node.name.escapedText, " = nil">>, st)
    ELSE IF node.name.kind = "ArrayBindingPattern"
    THEN Then(transpileExpression(node.initializer, FALSE, st), LAMBDA value :
             Ok(<<"local ", "__destr", ToString(value.st.genVarCounter), " = ">>
                  \o value.text \o <<NL>>
                  \o transpileBindingElements(
                         node.name.elements, 0,
                         <<"__destr", ToString(value.st.genVarCounter)>>,
                         [value.st EXCEPT !.genVarCounter = @ + 1]),
                [value.st EXCEPT !.genVarCounter = @ + 1]))
    ELSE Throw("Unsupported variable declaration type "
                 \o enumName(node.name.kind), node, st)

\* declarations.forEach(declaration => result += ...) from element i on.
transpileDeclarations(declarations, i, acc, st) ==
    IF i > Len(declarations) THEN Ok(acc, st)
    ELSE Then(transpileVariableDeclaration(declarations[i], st), LAMBDA d :
            transpileDeclarations(declarations, i + 1, acc \o d.text, d.st))

transpileVariableStatement(node, st) ==
    transpileDeclarations(node.declarationList.declarations, 1, <<>>, st)

-----------------------------------------------------------------------------
(* Classes *)

\* The names of the parameters, as pushed on paramNames / parameters.
parameterNames(parameters) ==
    [i \in 1..Len(parameters) |-> <<parameters[i].name.escapedText>>]

transpileMethodDeclaration(node, path, st) ==
    Then(transpileBlock(node.body, pushIndent(st)), LAMBDA body :
        Ok(st.indent \o <<"function ">> \o path \o <<node.name.escapedText, "(">>
             \o join(<<(<<"self">>)>> \o parameterNames(node.parameters), ",")
             \o <<")", NL>>
             \o body.text \o popIndent(body.st).indent \o <<"end", NL>>,
           popIndent(body.st)))

\* node.members.filter(ts.isMethodDeclaration).forEach(...) from method i on.
transpileMethods(methods, i, path, acc, st) ==
    IF i > Len(methods) THEN Ok(acc, st)
    ELSE Then(transpileMethodDeclaration(methods[i], path, st), LAMBDA m :
            transpileMethods(methods, i + 1, path, acc \o m.text, m.st))

\* for (const field of fields): one line `<path><fieldName> = <value>` each,
\* from field i on; path is what stands before the name of the field.
transpileFields(fields, i, path, acc, st) ==
    IF i > Len(fields) THEN Ok(acc, st)
    ELSE Then(transpileExpression(fields[i].initializer, FALSE, st), LAMBDA value :
            transpileFields(
                fields, i + 1, path,
                acc \o path \o <<fields[i].name.escapedText, " = ">>
                    \o value.text \o <<NL>>,
                value.st))

\* The parameters that have modifiers, in order.
extraInstanceFields(parameters) ==
    SelectSeq(parameters, LAMBDA param : "modifiers" \in DOMAIN param)

\* for (const f of extraInstanceFields): the line `    self.<f> = <f>` each.
RECURSIVE transpileExtraInstanceFields(_, _)
transpileExtraInstanceFields(params, st) ==
    IF params = <<>> THEN <<>>
    ELSE st.indent
           \o <<IndentUnit, "self.", Head(params).name.escapedText, " = ",
                Head(params).name.escapedText, NL>>
           \o transpileExtraInstanceFields(Tail(params), st)

\* transpileConstructor with the loops over instanceFields and over
\* extraInstanceFields in the other order.
transpileConstructor_FieldsFirst(node, className, instanceFields, st) ==
    Then(transpileFields(instanceFields, 1, st.indent \o <<IndentUnit, "self.">>,
                         <<>>, st), LAMBDA fields :
    Then(transpileBlock(node.body, pushIndent(fields.st)), LAMBDA body :
        Ok(st.indent \o <<"function ", className, ".constructor(">>
             \o join(<<(<<"self">>)>> \o parameterNames(node.parameters), ",")
             \o <<")", NL>>
             \o fields.text
             \o transpileExtraInstanceFields(extraInstanceFields(node.parameters), st)
             \o body.text \o popIndent(body.st).indent \o <<"end", NL>>,
           popIndent(body.st))))

transpileConstructor(node, className, instanceFields, st) ==
    Then(transpileFields(instanceFields, 1, st.indent \o <<IndentUnit, "self.">>,
                         <<>>, st), LAMBDA fields :
    Then(transpileBlock(node.body, pushIndent(fields.st)), LAMBDA body :
        Ok(st.indent \o <<"function ", className, ".constructor(">>
             \o join(<<(<<"self">>)>> \o parameterNames(node.parameters), ",")
             \o <<")", NL>>
             \o transpileExtraInstanceFields(extraInstanceFields(node.parameters), st)
             \o fields.text
             \o body.text \o popIndent(body.st).indent \o <<"end", NL>>,
           popIndent(body.st))))

\* ts.createConstructor([], [], [], ts.createBlock([], true))
createConstructor ==
    [kind |-> "Constructor", parameters |-> <<>>,
     body |-> [kind |-> "Block", statements |-> <<>>]]

\* node.heritageClauses.forEach(...) from clause i on; acc holds the locals
\* extendsType (absent while it is undefined) and noClassOr.
transpileHeritage(clauses, i, acc) ==
    IF i > Len(clauses) THEN acc
    ELSE IF clauses[i].token # "ExtendsKeyword"
    THEN transpileHeritage(clauses, i + 1, acc)
    ELSE transpileHeritage(
             clauses, i + 1,
             [noClassOr |->
                  hasCustomDecorator(getTypeAtLocation(clauses[i].types[1]),
                                     "!NoClassOr")]
               @@ (IF ~isPureAbstractClass(getTypeAtLocation(clauses[i].types[1]))
                   THEN [extendsType |-> clauses[i].types[1]]
                   ELSE <<>>)
               @@ acc)

heritage(node) ==
    IF "heritageClauses" \in DOMAIN node
    THEN transpileHeritage(node.heritageClauses, 1, [noClassOr |-> FALSE])
    ELSE [noClassOr |-> FALSE]

\* The name the members are attached to: for an extension class that
\* extends a type, the name of that type.
classNameOf(node) ==
    IF /\ isExtensionClass(getTypeAtLocation(node))
       /\ "extendsType" \in DOMAIN heritage(node)
    THEN heritage(node).extendsType.expression.escapedText
    ELSE node.name.escapedText

\* The lines that declare the class; none for an extension class.
transpileClassHeader(node, st) ==
    IF isExtensionClass(getTypeAtLocation(node)) THEN <<>>
    ELSE st.indent
           \o <<node.name.escapedText, " = ">>
           \o (IF heritage(node).noClassOr THEN <<>>
               ELSE <<node.name.escapedText, " or ">>)
           \o (IF "extendsType" \in DOMAIN heritage(node)
               THEN <<heritage(node).extendsType.expression.escapedText, ".new()", NL>>
               ELSE <<"{}", NL>>)
           \o st.indent
           \o <<node.name.escapedText, ".__index = ", node.name.escapedText, NL>>
           \o (IF "extendsType" \in DOMAIN heritage(node)
               THEN st.indent
                      \o <<node.name.escapedText, ".__base = ",
                           heritage(node).extendsType.expression.escapedText, NL>>
               ELSE <<>>)
           \o st.indent
           \o <<"function ", node.name.escapedText, ".new(construct, ...)", NL>>
           \o st.indent
           \o <<IndentUnit, "local instance = setmetatable({}, ",
                node.name.escapedText, ")", NL>>
           \o st.indent
           \o <<IndentUnit, "if construct and ", node.name.escapedText,
                ".constructor then ", node.name.escapedText,
                ".constructor(instance, ...) end", NL>>
           \o st.indent \o <<IndentUnit, "return instance", NL>>
           \o st.indent \o <<"end", NL>>

isStatic(member) ==
    "modifiers" \in DOMAIN member /\ "StaticKeyword" \in member.modifiers

\* node.members.filter(ts.isPropertyDeclaration).filter(_ => _.initializer)
properties(node) ==
    SelectSeq(node.members,
              LAMBDA member : /\ member.kind = "PropertyDeclaration"
                              /\ "initializer" \in DOMAIN member)

staticFields(node) == SelectSeq(properties(node), isStatic)

instanceFields(node) == SelectSeq(properties(node), LAMBDA f : ~isStatic(f))

constructors(node) ==
    SelectSeq(node.members, LAMBDA member : member.kind = "Constructor")

methods(node) ==
    SelectSeq(node.members, LAMBDA member : member.kind = "MethodDeclaration")

transpileClass(node, st) ==
    Then(transpileFields(staticFields(node), 1,
                         st.indent \o <<classNameOf(node), ".">>,
                         transpileClassHeader(node, st), st), LAMBDA statics :
    Then(IF constructors(node) # <<>>
         THEN transpileConstructor(constructors(node)[1], classNameOf(node),
                                   instanceFields(node), statics.st)
         ELSE IF Len(instanceFields(node)) > 0
         THEN transpileConstructor(createConstructor, classNameOf(node),
                                   instanceFields(node), statics.st)
         ELSE Ok(<<>>, statics.st), LAMBDA constructor :
    Then(transpileMethods(methods(node), 1, <<classNameOf(node), ".">>, <<>>,
                          constructor.st), LAMBDA ms :
        Ok(statics.text \o constructor.text \o ms.text, ms.st))))

\* this.indent + ... + "\n" around what an emitter returned.
indentedLine(prefix, r) ==
    Then(r, LAMBDA x : Ok(prefix \o x.text \o <<NL>>, x.st))

transpileNode(node, st) ==
    IF hasDeclareKeyword(node) THEN Ok(<<>>, st) ELSE
    CASE node.kind = "ImportDeclaration" -> transpileImport(node, st)
      [] node.kind = "ClassDeclaration" -> transpileClass(node, st)
      [] node.kind = "EnumDeclaration" -> transpileEnum(node, st)
      [] node.kind = "VariableStatement" ->
            indentedLine(st.indent, transpileVariableStatement(node, st))
      [] node.kind = "ExpressionStatement" ->
            indentedLine(st.indent, transpileExpression(node.expression, FALSE, st))
      [] node.kind = "ReturnStatement" ->
            indentedLine(st.indent, transpileReturn(node, st))
      [] node.kind = "IfStatement" -> transpileIf(node, st)
      [] node.kind = "WhileStatement" -> transpileWhile(node, st)
      [] node.kind = "SwitchStatement" -> transpileSwitch(node, st)
      [] node.kind = "BreakStatement" -> transpileBreak(st)
      [] node.kind = "ContinueKeyword" ->
            Throw("Continue is not supported in Lua", node, st)
      [] node.kind \in {"TypeAliasDeclaration", "InterfaceDeclaration",
                        "EndOfFileToken"} -> Ok(<<>>, st)
      [] OTHER -> indentedLine(st.indent, transpileExpression(node, FALSE, st))

\* forEach(statement => result += this.transpileNode(statement)) from element
\* i on; acc is `result`.
transpileNodes(nodes, i, acc, st) ==
    IF i > Len(nodes) THEN Ok(acc, st)
    ELSE Then(transpileNode(nodes[i], st), LAMBDA r :
            transpileNodes(nodes, i + 1, acc \o r.text, r.st))

\* What forEachChild visits of a node that is not a Block: a SourceFile's
\* statements and its end-of-file token.
children(node) == node.statements \o <<node.endOfFileToken>>

transpileBlock(node, st) ==
    IF node = undefined
    THEN ThrowTypeError("Cannot read property 'kind' of undefined", st)
    ELSE IF node.kind = "Block"
    THEN transpileNodes(node.statements, 1, <<>>, st)
    ELSE transpileNodes(children(node), 1, <<>>, st)

-----------------------------------------------------------------------------
(* Source files *)

Identifier(name, type) ==
    [kind |-> "Identifier", text |-> name, escapedText |-> name, type |-> type]

NumericLiteral(text) ==
    [kind |-> "NumericLiteral", text |-> text, type |-> NumberLiteralType]

StringLiteral(text) ==
    [kind |-> "StringLiteral", text |-> text, type |-> StringLiteralType]

CallExpression(expression, arguments, type) ==
    [kind |-> "CallExpression", expression |-> expression,
     arguments |-> arguments, type |-> type]

Block(statements) == [kind |-> "Block", statements |-> statements]

ArrowFunction(body) ==
    [kind |-> "ArrowFunction", parameters |-> <<>>, body |-> body,
     type |-> ObjectType]

ExpressionStatement(expression) ==
    [kind |-> "ExpressionStatement", expression |-> expression]

BindingElement(name) ==
    [kind |-> "BindingElement", name |-> Identifier(name, AnyType)]

RestElement(name) ==
    [kind |-> "BindingElement", name |-> Identifier(name, ArrayType),
     dotDotDotToken |-> [kind |-> "DotDotDotToken"]]

VariableDeclaration(name, initializer) ==
    [kind |-> "VariableDeclaration", name |-> name, initializer |-> initializer]

VariableStatement(declarations) ==
    [kind |-> "VariableStatement",
     declarationList |-> [kind |-> "VariableDeclarationList",
                          declarations |-> declarations]]

ArrayBindingPattern(elements) ==
    [kind |-> "ArrayBindingPattern", elements |-> elements]

BreakStatement == [kind |-> "BreakStatement"]

ContinueStatement == [kind |-> "ContinueStatement"]

WhileStatement(expression, statement) ==
    [kind |-> "WhileStatement", expression |-> expression, statement |-> statement]

IfStatement(expression, thenStatement) ==
    [kind |-> "IfStatement", expression |-> expression,
     thenStatement |-> thenStatement]

CaseClause(expression, statements) ==
    [kind |-> "CaseClause", expression |-> expression, statements |-> statements]

DefaultClause(statements) ==
    [kind |-> "DefaultClause", statements |-> statements]

SwitchStatement(expression, clauses) ==
    [kind |-> "SwitchStatement", expression |-> expression,
     caseBlock |-> [kind |-> "CaseBlock", clauses |-> clauses]]

SourceFile(statements) ==
    [kind |-> "SourceFile", statements |-> statements,
     endOfFileToken |-> [kind |-> "EndOfFileToken"]]

\* let [a] = xs;
Destructuring ==
    VariableStatement(<<VariableDeclaration(
        ArrayBindingPattern(<<BindingElement("a")>>), Identifier("xs", ArrayType))>>)

\* f();
CallStatement ==
    ExpressionStatement(CallExpression(Identifier("f", ObjectType), <<>>, AnyType))

\* (() => { let [a] = xs; })()
CallOfArrowFunction ==
    CallExpression(
        [kind |-> "ParenthesizedExpression",
         expression |-> ArrowFunction(Block(<<Destructuring>>))],
        <<>>, AnyType)

\* The largest number of nodes (statements and clauses) of a source file.
MaxNodes == 4

SimpleStatements == {BreakStatement, ContinueStatement, Destructuring}

SwitchOf(clauses) == SwitchStatement(Identifier("k", NumberType), clauses)

WhileOf(statements) == WhileStatement(Identifier("c", AnyType), Block(statements))

IfOf(statement) == IfStatement(Identifier("c", AnyType), statement)

\* A switch has at most one default clause.
AtMostOneDefault(clauses) ==
    Cardinality({i \in 1..Len(clauses) : clauses[i].kind = "DefaultClause"}) <= 1

\* Families(n)[m], for m in 0..n: the statements (S), statement lists (L),
\* clauses (C) and clause lists (CL) of exactly m nodes.  A clause counts one
\* node, and one more when its case expression holds a statement of its own.
\* The statements of exactly n nodes, given the families of fewer nodes.
StatementsOf(n, prev) ==
    (IF n = 1 THEN SimpleStatements ELSE {})
      \cup {SwitchOf(cs) : cs \in prev[n - 1].CL}
      \cup {WhileOf(l) : l \in prev[n - 1].L}
      \cup {IfOf(s) : s \in prev[n - 1].S}

RECURSIVE Families(_)
Families(n) ==
    IF n = 0
    THEN 0 :> [S |-> {}, L |-> {<<>>}, C |-> {}, CL |-> {<<>>}]
    ELSE LET prev == Families(n - 1)
             S == StatementsOf(n, prev)
             C == {CaseClause(NumericLiteral("1"), l) : l \in prev[n - 1].L}
                    \cup {DefaultClause(l) : l \in prev[n - 1].L}
                    \cup (IF n >= 2
                          THEN {CaseClause(CallOfArrowFunction, l) :
                                  l \in prev[n - 2].L}
                          ELSE {})
             L == UNION {{<<s>> \o l : s \in (IF k = n THEN S ELSE prev[k].S),
                                       l \in prev[n - k].L} : k \in 1..n}
             CL == {clauses \in
                      UNION {{<<c>> \o cs :
                                c \in (IF k = n THEN C ELSE prev[k].C),
                                cs \in prev[n - k].CL} : k \in 1..n} :
                      AtMostOneDefault(clauses)}
         IN  prev @@ (n :> [S |-> S, L |-> L, C |-> C, CL |-> CL])

\* The families of fewer than MaxNodes nodes.
SmallerFamilies == Families(MaxNodes - 1)

\* The first statements of k nodes of the source files.
FirstStatements(k) ==
    IF k < MaxNodes THEN SmallerFamilies[k].S
    ELSE StatementsOf(k, SmallerFamilies)

-----------------------------------------------------------------------------
(* Source files of single-line statements *)

BinaryExpression(left, operatorToken, right, type) ==
    [kind |-> "BinaryExpression", left |-> left, operatorToken |-> operatorToken,
     right |-> right, type |-> type]

ElementAccessExpression(expression, argumentExpression) ==
    [kind |-> "ElementAccessExpression", expression |-> expression,
     argumentExpression |-> argumentExpression, type |-> AnyType]

PropertyAccessExpression(expression, name) ==
    [kind |-> "PropertyAccessExpression", expression |-> expression,
     name |-> Identifier(name, AnyType), type |-> AnyType]

NamespaceImport(name) ==
    [kind |-> "NamespaceImport", name |-> Identifier(name, AnyType)]

ImportSpecifier(name) ==
    [kind |-> "ImportSpecifier", name |-> Identifier(name, AnyType)]

RenamedImportSpecifier(propertyName, name) ==
    [kind |-> "ImportSpecifier", propertyName |-> Identifier(propertyName, AnyType),
     name |-> Identifier(name, AnyType)]

NamedImports(elements) == [kind |-> "NamedImports", elements |-> elements]

ImportDeclaration(namedBindings, moduleSpecifier) ==
    [kind |-> "ImportDeclaration",
     importClause |-> [kind |-> "ImportClause", namedBindings |-> namedBindings],
     moduleSpecifier |-> StringLiteral(moduleSpecifier)]

\* An operand whose static type is string.
IsStringOperand(node) ==
    getTypeAtLocation(node).flags \cap {"String", "StringLiteral"} # {}

\* left + right, with the type the checker gives the sum.
Plus(left, right) ==
    BinaryExpression(left, "PlusToken", right,
                     IF IsStringOperand(left) \/ IsStringOperand(right)
                     THEN StringType ELSE NumberType)

\* let x = <initializer>;
LetX(initializer) ==
    VariableStatement(<<VariableDeclaration(Identifier("x", AnyType), initializer)>>)

IdentifierS == Identifier("s", StringType)

IdentifierN == Identifier("n", NumberType)

LeftOperands ==
    {IdentifierS, IdentifierN, StringLiteral("a"), NumericLiteral("1")}

RightOperands == {IdentifierS, NumericLiteral("2")}

\* let x = n + n * 1;
SumOfProduct ==
    LetX(Plus(IdentifierN,
              BinaryExpression(IdentifierN, "AsteriskToken", NumericLiteral("1"),
                               NumberType)))

\* let x = s + n + n;
SumOfConcatenation == LetX(Plus(Plus(IdentifierS, IdentifierN), IdentifierN))

\* let x = s + n - 1;
ConcatenationMinusOne ==
    LetX(BinaryExpression(Plus(IdentifierS, IdentifierN), "MinusToken",
                          NumericLiteral("1"), NumberType))

\* let x = n === 1;
Comparison ==
    LetX(BinaryExpression(IdentifierN, "EqualsEqualsEqualsToken",
                          NumericLiteral("1"), Type({"Boolean"}, "none")))

Containers ==
    {Identifier("xs", ArrayType), Identifier("t", TupleType), IdentifierS,
     Identifier("o", ObjectType), Identifier("v", AnyType)}

Indexes == {NumericLiteral("0"), Identifier("i", NumberType)}

\* let [a, b, ...rest] = xs;
DestructuringWithRest ==
    VariableStatement(<<VariableDeclaration(
        ArrayBindingPattern(<<BindingElement("a"), BindingElement("b"),
                              RestElement("rest")>>),
        Identifier("xs", ArrayType))>>)

\* import * as X from "m";
ImportNamespace == ImportDeclaration(NamespaceImport("X"), "m")

\* import { a, b } from "m";
ImportNamed ==
    ImportDeclaration(NamedImports(<<ImportSpecifier("a"), ImportSpecifier("b")>>),
                      "m")

\* import { a, b as c } from "m";
ImportRenamed ==
    ImportDeclaration(
        NamedImports(<<ImportSpecifier("a"), RenamedImportSpecifier("b", "c")>>),
        "m")

\* s.foo(s.bar);
StringFooOfBar ==
    ExpressionStatement(
        CallExpression(PropertyAccessExpression(IdentifierS, "foo"),
                       <<PropertyAccessExpression(IdentifierS, "bar")>>, AnyType))

\* s.indexOf("a");
StringIndexOf ==
    ExpressionStatement(
        CallExpression(PropertyAccessExpression(IdentifierS, "indexOf"),
                       <<StringLiteral("a")>>, NumberType))

\* return;
ReturnNothing == [kind |-> "ReturnStatement"]

\* return n;
ReturnValue == [kind |-> "ReturnStatement", expression |-> IdentifierN]

\* switch (k) { case 1: }
SwitchOnCaseOne == SwitchOf(<<CaseClause(NumericLiteral("1"), <<>>)>>)

LineStatements ==
    {LetX(Plus(l, r)) : l \in LeftOperands, r \in RightOperands}
      \cup {LetX(ElementAccessExpression(x, NumericLiteral("0"))) : x \in Containers}
      \cup {LetX(ElementAccessExpression(Identifier("xs", ArrayType),
                                         Identifier("i", NumberType)))}
      \cup {SumOfProduct, SumOfConcatenation, ConcatenationMinusOne, Comparison, DestructuringWithRest,
            ImportNamespace, ImportNamed, ImportRenamed, StringFooOfBar,
            StringIndexOf, SwitchOnCaseOne, ReturnNothing, ReturnValue}

\* The largest number of statements of a source file of line statements.
MaxStatements == 2

-----------------------------------------------------------------------------
(* Source files of one declaration: an enum or a class *)

\* The type of a declaration that carries the given decorators.
DecoratedType(decorators) == [ObjectType EXCEPT !.decorators = decorators]

\* A member without an initializer has no initializer field.
EnumMember(name, initializer) ==
    IF initializer = undefined
    THEN [kind |-> "EnumMember", name |-> Identifier(name, AnyType)]
    ELSE [kind |-> "EnumMember", name |-> Identifier(name, AnyType),
          initializer |-> initializer]

EnumDeclaration(name, members, decorators) ==
    [kind |-> "EnumDeclaration", name |-> Identifier(name, AnyType),
     members |-> members, type |-> DecoratedType(decorators)]

PropertyDeclaration(name, modifiers, initializer) ==
    [kind |-> "PropertyDeclaration", name |-> Identifier(name, AnyType)]
      @@ (IF modifiers = {} THEN <<>> ELSE [modifiers |-> modifiers])
      @@ (IF initializer = undefined THEN <<>> ELSE [initializer |-> initializer])

Parameter(name, modifiers) ==
    [kind |-> "Parameter", name |-> Identifier(name, AnyType)]
      @@ (IF modifiers = {} THEN <<>> ELSE [modifiers |-> modifiers])

Constructor(parameters, statements) ==
    [kind |-> "Constructor", parameters |-> parameters, body |-> Block(statements)]

MethodDeclaration(name, parameters, statements) ==
    [kind |-> "MethodDeclaration", name |-> Identifier(name, AnyType),
     parameters |-> parameters, body |-> Block(statements)]

\* extends <name>, of a base class that carries the given decorators.
ExtendsClause(name, decorators) ==
    [kind |-> "HeritageClause", token |-> "ExtendsKeyword",
     types |-> <<[kind |-> "ExpressionWithTypeArguments",
                  expression |-> Identifier(name, ObjectType),
                  type |-> DecoratedType(decorators)]>>]

ClassDeclaration(name, heritageClauses, members, decorators) ==
    [kind |-> "ClassDeclaration", name |-> Identifier(name, AnyType),
     members |-> members, type |-> DecoratedType(decorators)]
      @@ (IF heritageClauses = <<>> THEN <<>>
          ELSE [heritageClauses |-> heritageClauses])

\* The largest number of members of an enum or of a class.
MaxMembers == 3

\* What may stand after a member of an enum: nothing, = 0, = 2, = 1.5, = "a".
EnumInitializers ==
    {undefined, NumericLiteral("0"), NumericLiteral("2"), NumericLiteral("1.5"),
     StringLiteral("a")}

\* The members of an enum are named M1, M2, ... in declaration order.
EnumDeclarations ==
    {EnumDeclaration(
         "E", [i \in DOMAIN inits |-> EnumMember("M" \o ToString(i), inits[i])],
         decorators) :
       inits \in UNION {[1..len -> EnumInitializers] : len \in 1..MaxMembers},
       decorators \in {{}, {"CompileMembersOnly"}}}

\* a = 1;
FieldA == PropertyDeclaration("a", {}, NumericLiteral("1"))

\* private b = "x";
FieldB == PropertyDeclaration("b", {"PrivateKeyword"}, StringLiteral("x"))

\* u;
FieldU == PropertyDeclaration("u", {}, undefined)

\* static z = 3;
StaticZ == PropertyDeclaration("z", {"StaticKeyword"}, NumericLiteral("3"))

\* constructor() {}
EmptyConstructor == Constructor(<<>>, <<>>)

\* constructor(public p, q, private r) { f(); }
ConstructorWithFields ==
    Constructor(<<Parameter("p", {"PublicKeyword"}), Parameter("q", {}),
                  Parameter("r", {"PrivateKeyword"})>>,
                <<CallStatement>>)

\* constructor(p);   an overload signature, which has no body
ConstructorSignature ==
    [kind |-> "Constructor", parameters |-> <<Parameter("p", {})>>,
     body |-> undefined]

\* class C { constructor(p); constructor(public p, q, private r) { f(); } }
OverloadedClass ==
    ClassDeclaration("C", <<>>, <<ConstructorSignature, ConstructorWithFields>>, {})

\* m(v) {}
MethodM == MethodDeclaration("m", <<Parameter("v", {})>>, <<>>)

ClassMembers ==
    {FieldA, FieldB, FieldU, StaticZ, EmptyConstructor, ConstructorWithFields,
     MethodM}

\* The members of a class are distinct, and one of them at most is a
\* constructor.
ClassMemberLists ==
    {members \in UNION {[1..len -> ClassMembers] : len \in 0..MaxMembers} :
        /\ \A i, j \in DOMAIN members : members[i] = members[j] => i = j
        /\ Cardinality({i \in DOMAIN members : members[i].kind = "Constructor"})
             <= 1}

\* class C, class C extends B, and the extension class C extends B.
ClassDeclarations ==
    {ClassDeclaration("C", <<>>, members, {}) : members \in ClassMemberLists}
      \cup {ClassDeclaration("C", <<ExtendsClause("B", {})>>, members, {}) :
              members \in ClassMemberLists}
      \cup {ClassDeclaration("C", <<ExtendsClause("B", {})>>, members,
                             {"Extension"}) :
              members \in ClassMemberLists}
      \cup {OverloadedClass}

DeclarationSourceFiles ==
    {SourceFile(<<d>>) : d \in EnumDeclarations \cup ClassDeclarations}

-----------------------------------------------------------------------------
(* transpileSourceFile *)

Emitter ==
    [indent |-> indent, genVarCounter |-> genVarCounter,
     transpilingSwitch |-> transpilingSwitch]

\* new LuaTranspiler(checker), and transpileBlock about to start on the file.
Constructed ==
    /\ pos = 1
    /\ result = <<>>
    /\ indent = <<>>
    /\ genVarCounter = 0
    /\ transpilingSwitch = FALSE
    /\ status = "running"
    /\ output = <<>>
    /\ error = NoError

\* The source file has MaxNodes nodes at most: no statement, or a first
\* statement of k nodes and n - k nodes in the statements after it.
Init ==
    /\ \E n \in 0..MaxNodes :
          \/ n = 0 /\ file = SourceFile(<<>>)
          \/ \E k \in 1..n :
                \E s \in FirstStatements(k), l \in SmallerFamilies[n - k].L :
                    file = SourceFile(<<s>> \o l)
    /\ Constructed

\* One round of transpileBlock's forEachChild: result += transpileNode(child).
TranspileChild ==
    /\ status = "running"
    /\ pos <= Len(children(file))
    /\ \E r \in {transpileNode(children(file)[pos], Emitter)} :
        /\ ~Failed(r)
        /\ result' = result \o r.text
        /\ indent' = r.st.indent
        /\ genVarCounter' = r.st.genVarCounter
        /\ transpilingSwitch' = r.st.transpilingSwitch
    /\ pos' = pos + 1
    /\ UNCHANGED <<file, status, output, error>>

\* The round in which transpileNode throws: the exception leaves
\* transpileBlock and transpileSourceFile.
TranspileChildThrows ==
    /\ status = "running"
    /\ pos <= Len(children(file))
    /\ \E r \in {transpileNode(children(file)[pos], Emitter)} :
        /\ Failed(r)
        /\ error' = r.err
        /\ indent' = r.st.indent
        /\ genVarCounter' = r.st.genVarCounter
        /\ transpilingSwitch' = r.st.transpilingSwitch
    /\ status' = "thrown"
    /\ UNCHANGED <<file, pos, result, output>>

\* return result
ReturnResult ==
    /\ status = "running"
    /\ pos > Len(children(file))
    /\ status' = "returned"
    /\ output' = result
    /\ UNCHANGED <<file, pos, result, indent, genVarCounter, transpilingSwitch,
                   error>>

Next == TranspileChild \/ TranspileChildThrows \/ ReturnResult

Spec == Init /\ [][Next]_vars

\* The source file has 1..MaxStatements statements, each a line statement.
InitLines ==
    /\ \E len \in 1..MaxStatements :
          \E l \in [1..len -> LineStatements] : file = SourceFile(l)
    /\ Constructed

SpecLines == InitLines /\ [][Next]_vars

InitDeclarations == file \in DeclarationSourceFiles /\ Constructed

SpecDeclarations == InitDeclarations /\ [][Next]_vars

-----------------------------------------------------------------------------
(* Reading the emitted text *)

NewlineCount(text) == Cardinality({i \in 1..Len(text) : text[i] = NL})

\* The place of the j-th newline of the text; 0 for j = 0.
NewlineAt(text, j) ==
    IF j = 0 THEN 0
    ELSE CHOOSE i \in 1..Len(text) :
            text[i] = NL /\ Cardinality({x \in 1..i : text[x] = NL}) = j

\* The newline-terminated lines of the text, each without its newline.
Lines(text) ==
    [j \in 1..NewlineCount(text) |->
        SubSeq(text, NewlineAt(text, j - 1) + 1, NewlineAt(text, j) - 1)]

\* How many indent units a line starts with, and the line after them.
Depth(ln) ==
    CHOOSE d \in 0..Len(ln) :
        /\ \A i \in 1..d : ln[i] = IndentUnit
        /\ d < Len(ln) => ln[d + 1] # IndentUnit

Body(ln) == SubSeq(ln, Depth(ln) + 1, Len(ln))

IsLabel(ln, name) ==
    Len(Body(ln)) = 3 /\ Body(ln)[1] = "::" \o name /\ Body(ln)[3] = "::"

IsGoto(ln, name) == Len(Body(ln)) = 2 /\ Body(ln)[1] = "goto " \o name

IsSwitchStart(ln) == Body(ln) = <<"-------Switch statement start-------">>

IsSwitchEnd(ln) == Body(ln) = <<"--------Switch statement end--------">>

\* The lines s..e of `lines` are what one switch statement emitted.
IsSwitchRegion(lines, s, e) ==
    /\ s < e
    /\ IsSwitchStart(lines[s])
    /\ IsSwitchEnd(lines[e])
    /\ Depth(lines[e]) = Depth(lines[s])
    /\ \A i \in (s + 1)..(e - 1) :
          ~(IsSwitchEnd(lines[i]) /\ Depth(lines[i]) = Depth(lines[s]))

-----------------------------------------------------------------------------
(* C1: in the output of a successful translation no two label definitions
   ::switchCase<k>:: carry the same k, and no two label definitions
   ::switchDone<k>:: carry the same k. *)
C1_LabelsUnique ==
    status = "returned" =>
        \A i, j \in DOMAIN Lines(output) :
            \A name \in {"switchCase", "switchDone"} :
                (/\ i # j
                 /\ IsLabel(Lines(output)[i], name)
                 /\ IsLabel(Lines(output)[j], name))
                => Body(Lines(output)[i])[2] # Body(Lines(output)[j])[2]

(* C2: every break that is a statement of a clause is emitted as
   goto switchDone<k>, with k the number of the terminator label
   ::switchDone<k>:: of that same switch. *)
C2_BreakReachesTerminator ==
    status = "returned" =>
        \A s, e \in DOMAIN Lines(output) :
            IsSwitchRegion(Lines(output), s, e) =>
                \A i \in (s + 1)..(e - 1) :
                    (/\ Depth(Lines(output)[i]) = Depth(Lines(output)[s]) + 1
                     /\ \/ Body(Lines(output)[i]) = <<"break">>
                        \/ IsGoto(Lines(output)[i], "switchDone"))
                    => /\ IsGoto(Lines(output)[i], "switchDone")
                       /\ IsLabel(Lines(output)[e - 1], "switchDone")
                       /\ Body(Lines(output)[i])[2] = Body(Lines(output)[e - 1])[2]

\* The first line of a clause of a switch: if/elseif <x>==<y> then, or else.
IsClauseHeader(ln) ==
    Len(Body(ln)) >= 1 /\ Body(ln)[1] \in {"if", "elseif", "else"}

(* C3: in every switch, the line before the header of each clause but the
   first is a goto switchCase<m> whose m is the number of the label
   ::switchCase<m>:: that opens the clause under that header, and the last
   clause ends without such a goto. *)
C3_FallthroughReachesNextClause ==
    status = "returned" =>
        \A s, e \in DOMAIN Lines(output) :
            IsSwitchRegion(Lines(output), s, e) =>
                /\ \A p \in (s + 2)..(e - 1) :
                      (/\ IsClauseHeader(Lines(output)[p])
                       /\ Depth(Lines(output)[p]) = Depth(Lines(output)[s]))
                      => /\ IsGoto(Lines(output)[p - 1], "switchCase")
                         /\ Depth(Lines(output)[p - 1]) = Depth(Lines(output)[s]) + 1
                         /\ \E q \in (p + 1)..(e - 1) :
                               /\ IsLabel(Lines(output)[q], "switchCase")
                               /\ Depth(Lines(output)[q]) = Depth(Lines(output)[s]) + 1
                               /\ \A x \in (p + 1)..(q - 1) :
                                     ~(/\ IsLabel(Lines(output)[x], "switchCase")
                                       /\ Depth(Lines(output)[x])
                                            = Depth(Lines(output)[s]) + 1)
                               /\ Body(Lines(output)[q])[2]
                                    = Body(Lines(output)[p - 1])[2]
                /\ ~(/\ IsGoto(Lines(output)[e - 3], "switchCase")
                     /\ Depth(Lines(output)[e - 3]) = Depth(Lines(output)[s]) + 1)

-----------------------------------------------------------------------------
(* Properties of single statements.  When pos = 2 the first statement of the
   file has been lowered and `result` is exactly its text. *)

\* The text of an identifier or a literal.
LeafText(node) ==
    IF node.kind = "StringLiteral" THEN "\"" \o node.text \o "\"" ELSE node.text

(* C5: a translation that fails at a continue statement fails with the
   dispatcher's error, "Continue is not supported in Lua". *)
C5_ContinueIsRejectedByDispatcher ==
    (status = "thrown" /\ error.node.kind = "ContinueStatement")
        => error.message = "Continue is not supported in Lua"

(* C6: l + r is lowered to l..r if and only if l or r has static type string,
   and to l+r otherwise. *)
C6_ConcatenationIffSomeOperandIsString ==
    \A l \in LeftOperands, r \in RightOperands :
        (pos = 2 /\ file.statements[1] = LetX(Plus(l, r))) =>
            Flatten(result) =
                "local x = " \o LeafText(l)
                    \o (IF IsStringOperand(l) \/ IsStringOperand(r)
                        THEN ".." ELSE "+")
                    \o LeafText(r) \o "\n"

(* C7 as stated: operands that are leaves are parenthesized, so
   let x = 1 + 2; gives local x = (1)+(2) and switch (k) { case 1: } has the
   header if (k)==(1) then. *)
C7_LeavesAreBracketed ==
    pos = 2 =>
        /\ file.statements[1] = LetX(Plus(NumericLiteral("1"), NumericLiteral("2")))
              => Flatten(result) = "local x = (1)+(2)\n"
        /\ file.statements[1] = SwitchOnCaseOne
              => Flatten(Lines(result)[2]) = "if (k)==(1) then"

(* C7: brackets are put around an operand only when it is itself a binary
   expression other than a string concatenation; identifiers and literals are
   emitted bare, so let x = 1 + 2; gives local x = 1+2 and
   switch (k) { case 1: } has the header if k==1 then. *)
C7_OnlyBinaryOperandsAreBracketed ==
    pos = 2 =>
        /\ \A l \in LeftOperands, r \in RightOperands :
              (~IsStringOperand(l) /\ file.statements[1] = LetX(Plus(l, r)))
                  => Flatten(result)
                       = "local x = " \o LeafText(l) \o "+" \o LeafText(r) \o "\n"
        /\ file.statements[1] = SumOfProduct
              => Flatten(result) = "local x = n+(n*1)\n"
        /\ file.statements[1] = SumOfConcatenation
              => Flatten(result) = "local x = s..n..n\n"
        /\ file.statements[1] = SwitchOnCaseOne
              => Flatten(Lines(result)[2]) = "if k==1 then"

C7_Witness ==
    /\ pos = 2
    /\ file.statements[1] = LetX(Plus(NumericLiteral("1"), NumericLiteral("2")))
    /\ Flatten(result) = "local x = 1+2\n"

(* C8: x[i] is lowered to x[i+1] when the checker reports x as an array or a
   tuple, to string.sub(x,i+1,i+1) when it reports a string, and to x[i]
   otherwise. *)
C8_ElementAccessOffset ==
    \A x \in Containers, i \in Indexes :
        (pos = 2 /\ file.statements[1] = LetX(ElementAccessExpression(x, i))) =>
            Flatten(result) =
                "local x = "
                    \o (IF \/ isArrayType(getTypeAtLocation(x))
                           \/ isTupleType(getTypeAtLocation(x))
                        THEN x.text \o "[" \o i.text \o "+1]"
                        ELSE IF isStringType(getTypeAtLocation(x))
                        THEN "string.sub(" \o x.text \o "," \o i.text \o "+1,"
                               \o i.text \o "+1)"
                        ELSE x.text \o "[" \o i.text \o "]")
                    \o "\n"

C8_Witness ==
    /\ pos = 2
    /\ file.statements[1]
         = LetX(ElementAccessExpression(Identifier("xs", ArrayType),
                                        NumericLiteral("0")))
    /\ Flatten(result) = "local x = xs[0+1]\n"

(* C9: let [a, b, ...rest] = xs; as the first statement is lowered to exactly
   the four lines local __destr0 = xs, local a = __destr0[1],
   local b = __destr0[2], local rest = TS_slice(__destr0, 2), each ended by
   one newline and no blank line, and genVarCounter goes from 0 to 1. *)
C9_DestructuringLines ==
    (pos = 2 /\ file.statements[1] = DestructuringWithRest) =>
        /\ Flatten(result)
             = "local __destr0 = xs\nlocal a = __destr0[1]\n"
                 \o "local b = __destr0[2]\nlocal rest = TS_slice(__destr0, 2)\n"
        /\ genVarCounter = 1

(* C10: import * as X from "m" is lowered to X = require("m"),
   import { a, b } from "m" to require("m"), and an import with a renamed
   element fails with a TranspileError and adds no text. *)
C10_ImportLowering ==
    /\ (pos = 2 /\ file.statements[1] = ImportNamespace)
          => Flatten(result) = "X = require(\"m\")"
    /\ (pos = 2 /\ file.statements[1] = ImportNamed)
          => Flatten(result) = "require(\"m\")"
    /\ (pos = 1 /\ file.statements[1] = ImportRenamed)
          => (status = "running"
                \/ (status = "thrown" /\ error.name = "TranspileError"
                      /\ result = <<>>))

\* The fields of an emitter that has lowered nothing yet.
NewEmitter == [indent |-> <<>>, genVarCounter |-> 0, transpilingSwitch |-> FALSE]

(* C4 as stated: a translation that fails returns no text, has lowered the
   statements before the failing one and none after it, and fails with the
   error of the first offending node in source order; in s.foo(s.bar) that
   node is the call of the unsupported function foo, which starts before its
   argument s.bar. *)
C4_ErrorOfFirstNodeInSourceOrder ==
    (status = "thrown" /\ error.name = "TranspileError") =>
        /\ output = <<>>
        /\ pos <= Len(file.statements)
        /\ result = transpileNodes(SubSeq(file.statements, 1, pos - 1), 1, <<>>,
                                   NewEmitter).text
        /\ file.statements[pos] = StringFooOfBar
              => /\ error.node = StringFooOfBar.expression
                 /\ error.message = "Unsupported string function: foo"

(* C4: a translation that fails returns no text, has lowered the statements
   before the failing one and none after it, and fails with the first error
   raised in the order in which the emitters run; in s.foo(s.bar) the
   argument is lowered before the function name is looked at, so the error
   is that of the unsupported property bar. *)
C4_ErrorAbortsFile ==
    (status = "thrown" /\ error.name = "TranspileError") =>
        /\ output = <<>>
        /\ pos <= Len(file.statements)
        /\ result = transpileNodes(SubSeq(file.statements, 1, pos - 1), 1, <<>>,
                                   NewEmitter).text
        /\ error = transpileNode(file.statements[pos], Emitter).err
        /\ file.statements[pos] = StringFooOfBar
              => /\ error.node = StringFooOfBar.expression.arguments[1]
                 /\ error.message = "Unsupported string property: bar"

C4_Witness ==
    /\ status = "thrown"
    /\ pos = 2
    /\ file.statements[2] = StringFooOfBar
    /\ result # <<>>
    /\ output = <<>>

(* C11: return; is lowered without an error to the one line `return`
   (nothing after the keyword but the newline). *)
C11_ReturnWithoutValue ==
    file.statements[1] = ReturnNothing =>
        /\ ~(pos = 1 /\ status = "thrown")
        /\ pos = 2 => Flatten(result) \in {"return\n", "return \n"}

(* C12: the text of every statement lowered so far ends in a newline, so that
   the text of the next statement starts on a line of its own; in particular
   the returned output is empty or ends in a newline. *)
C12_StatementsEndInNewline ==
    status \in {"running", "returned"} =>
        (result = <<>> \/ result[Len(result)] = NL)

-----------------------------------------------------------------------------
(* Properties of the emitter's fields *)

\* The number of clauses of switch statements plus the number of array
\* destructuring declarations in a node, and in a sequence of nodes.
RECURSIVE ClausesAndDestructurings(_)
RECURSIVE ClausesAndDestructuringsOfAll(_)
ClausesAndDestructuringsOfAll(nodes) ==
    IF nodes = <<>> THEN 0
    ELSE ClausesAndDestructurings(Head(nodes))
           + ClausesAndDestructuringsOfAll(Tail(nodes))

ClausesAndDestructurings(node) ==
    CASE node.kind = "SwitchStatement" ->
            Len(node.caseBlock.clauses)
              + ClausesAndDestructurings(node.expression)
              + ClausesAndDestructuringsOfAll(node.caseBlock.clauses)
      [] node.kind = "CaseClause" ->
            ClausesAndDestructurings(node.expression)
              + ClausesAndDestructuringsOfAll(node.statements)
      [] node.kind \in {"DefaultClause", "Block"} ->
            ClausesAndDestructuringsOfAll(node.statements)
      [] node.kind = "VariableStatement" ->
            ClausesAndDestructuringsOfAll(node.declarationList.declarations)
      [] node.kind = "VariableDeclaration" ->
            (IF node.name.kind = "ArrayBindingPattern" THEN 1 ELSE 0)
              + ClausesAndDestructurings(node.initializer)
      [] node.kind = "WhileStatement" ->
            ClausesAndDestructurings(node.expression)
              + ClausesAndDestructurings(node.statement)
      [] node.kind = "IfStatement" ->
            ClausesAndDestructurings(node.expression)
              + ClausesAndDestructurings(node.thenStatement)
      [] node.kind \in {"ExpressionStatement", "ParenthesizedExpression"} ->
            ClausesAndDestructurings(node.expression)
      [] node.kind = "CallExpression" ->
            ClausesAndDestructurings(node.expression)
              + ClausesAndDestructuringsOfAll(node.arguments)
      [] node.kind = "ArrowFunction" -> ClausesAndDestructurings(node.body)
      [] OTHER -> 0

(* C13: genVarCounter is 0 when the translation starts and never decreases;
   once some statements of the file have been lowered it is exactly the
   number of clauses of the switch statements in them plus the number of
   array destructuring declarations in them, so a switch adds its number of
   clauses, a destructuring adds 1 and nothing else changes it. *)
C13_CounterCountsClausesAndDestructurings ==
    /\ [](status \in {"running", "returned"} =>
            genVarCounter
              = ClausesAndDestructuringsOfAll(SubSeq(children(file), 1, pos - 1)))
    /\ [][genVarCounter' >= genVarCounter]_vars

C13_Witness ==
    /\ status = "returned"
    /\ file.statements = <<SwitchOf(<<DefaultClause(<<Destructuring>>)>>), Destructuring>>
    /\ genVarCounter = 3

(* C14: transpilingSwitch is false whenever transpileNode is about to be
   called on a statement of the source file itself and when the translation
   returns; and every goto switchDone<k> of the output, which a break emits
   only while transpilingSwitch is set, stands inside the lines of a switch
   statement. *)
C14_InSwitchOnlyInsideClauses ==
    /\ status \in {"running", "returned"} => transpilingSwitch = FALSE
    /\ status = "returned" =>
          \A i \in DOMAIN Lines(output) :
              IsGoto(Lines(output)[i], "switchDone") =>
                  \E b, e \in DOMAIN Lines(output) :
                      /\ IsSwitchRegion(Lines(output), b, e)
                      /\ b < i /\ i < e
                      /\ Depth(Lines(output)[i]) > Depth(Lines(output)[b])

C14_Witness ==
    /\ status = "returned"
    /\ file.statements
         = <<SwitchOf(<<DefaultClause(<<BreakStatement>>)>>), BreakStatement>>
    /\ transpilingSwitch = FALSE
    /\ \E i \in DOMAIN Lines(output) : IsGoto(Lines(output)[i], "switchDone")

(* C15: indent is always a whole number of four-space units, also in the
   emitter that an exception left behind; and it is empty whenever
   transpileNode is about to be called on a statement of the source file
   itself and when the translation returns, every pushIndent having been
   undone by a popIndent. *)
C15_IndentIsBalanced ==
    /\ \A i \in DOMAIN indent : indent[i] = "    "
    /\ Len(Flatten(indent)) = 4 * Len(indent)
    /\ status \in {"running", "returned"} => indent = <<>>

C15_Witness ==
    /\ status = "returned"
    /\ file.statements = <<WhileOf(<<IfOf(BreakStatement)>>)>>
    /\ \E i \in DOMAIN Lines(output) : Depth(Lines(output)[i]) = 2
    /\ indent = <<>>

(* C16: the text of a binary expression is wrapped in one pair of
   parentheses exactly when brackets were asked for: an initializer is not
   wrapped, and an operand that is a binary expression is, a string
   concatenation included. *)
C16_BracketsIffRequested ==
    pos = 2 =>
        /\ file.statements[1] = LetX(Plus(NumericLiteral("1"), NumericLiteral("2")))
              => Flatten(result) = "local x = 1+2\n"
        /\ file.statements[1] = LetX(Plus(IdentifierS, IdentifierS))
              => Flatten(result) = "local x = s..s\n"
        /\ file.statements[1] = SumOfProduct
              => Flatten(result) = "local x = n+(n*1)\n"
        /\ file.statements[1] = SumOfConcatenation
              => Flatten(result) = "local x = (s..n)..n\n"
        /\ file.statements[1] = ConcatenationMinusOne
              => Flatten(result) = "local x = (s..n)-1\n"

-----------------------------------------------------------------------------
(* Properties of declarations *)

\* The value of a numeric literal in tenths, and the numeral of so many tenths.
Tenths(text) ==
    IF Len(Characters(text)) = 3
    THEN 10 * DigitValue(Characters(text)[1]) + DigitValue(Characters(text)[3])
    ELSE 10 * DigitValue(text)

Numeral(tenths) ==
    IF tenths % 10 = 0 THEN ToString(tenths \div 10)
    ELSE ToString(tenths \div 10) \o "." \o ToString(tenths % 10)

\* The value of the i-th member of an enum, in tenths: that of its
\* initializer, or one more than that of the member before it, or 0.
RECURSIVE MemberValue(_, _)
MemberValue(members, i) ==
    IF "initializer" \in DOMAIN members[i] THEN Tenths(members[i].initializer.text)
    ELSE IF i = 1 THEN 0
    ELSE MemberValue(members, i - 1) + 10

\* The lines NAME=VALUE of the members from the i-th on, each after prefix.
RECURSIVE MemberLines(_, _, _)
MemberLines(members, i, prefix) ==
    IF i > Len(members) THEN ""
    ELSE prefix \o members[i].name.escapedText \o "="
           \o Numeral(MemberValue(members, i)) \o "\n"
           \o MemberLines(members, i + 1, prefix)

HasOnlyNumericInitializers(members) ==
    \A i \in DOMAIN members :
        "initializer" \in DOMAIN members[i]
            => members[i].initializer.kind = "NumericLiteral"

(* C17: an enum whose initializers are all numeric literals is lowered to
   E={} and one line E.NAME=VALUE per member, or to the lines NAME=VALUE alone
   when it is a compile-members-only enum, where VALUE is the value of the
   member's initializer, or one more than the value of the member before it,
   or 0 for a first member without initializer; an enum with any other
   initializer fails with the TranspileError "Only numeric initializers
   allowed for enums." *)
C17_EnumMemberValues ==
    file.statements[1].kind = "EnumDeclaration" =>
        IF HasOnlyNumericInitializers(file.statements[1].members)
        THEN /\ status # "thrown"
             /\ pos >= 2 =>
                  Flatten(result)
                    = IF isCompileMembersOnlyEnum(getTypeAtLocation(file.statements[1]))
                      THEN MemberLines(file.statements[1].members, 1, "")
                      ELSE "E={}\n" \o MemberLines(file.statements[1].members, 1, "E.")
        ELSE \/ status = "running" /\ pos = 1
             \/ /\ status = "thrown"
                /\ error = TranspileError(
                               "Only numeric initializers allowed for enums.",
                               file.statements[1])

\* The line `function <C>.constructor(...)`.
IsConstructorHeader(ln) ==
    /\ Len(Body(ln)) >= 3
    /\ Body(ln)[1] = "function "
    /\ Body(ln)[3] = ".constructor("

\* The assignments self.<p> = <p> of the parameters, in order.
RECURSIVE ParameterAssignments(_)
ParameterAssignments(params) ==
    IF params = <<>> THEN <<>>
    ELSE <<"self." \o Head(params).name.escapedText \o " = "
             \o Head(params).name.escapedText>>
           \o ParameterAssignments(Tail(params))

\* The assignments self.<field> = <EXPR> of the fields, in order.
RECURSIVE FieldAssignments(_)
FieldAssignments(fields) ==
    IF fields = <<>> THEN <<>>
    ELSE <<"self." \o Head(fields).name.escapedText \o " = "
             \o LeafText(Head(fields).initializer)>>
           \o FieldAssignments(Tail(fields))

IsInitializedInstanceField(member) ==
    /\ member.kind = "PropertyDeclaration"
    /\ "initializer" \in DOMAIN member
    /\ ~("modifiers" \in DOMAIN member /\ "StaticKeyword" \in member.modifiers)

IsStaticField(member) ==
    /\ member.kind = "PropertyDeclaration"
    /\ "modifiers" \in DOMAIN member
    /\ "StaticKeyword" \in member.modifiers

\* The constructor a class declares, or the empty one when it declares none.
DeclaredConstructor(class) ==
    IF \E i \in DOMAIN class.members : class.members[i].kind = "Constructor"
    THEN class.members[CHOOSE i \in DOMAIN class.members :
                           class.members[i].kind = "Constructor"]
    ELSE Constructor(<<>>, <<>>)

\* What stands between the header of the constructor function and its end:
\* first the parameters with a modifier, then the initialized instance
\* fields.
ConstructorAssignments(class) ==
    ParameterAssignments(
        SelectSeq(DeclaredConstructor(class).parameters,
                  LAMBDA param : "modifiers" \in DOMAIN param))
      \o FieldAssignments(SelectSeq(class.members, IsInitializedInstanceField))

\* The lines of the body of the constructor, lowered one level deep.
ConstructorBodyLines(class) ==
    Lines(transpileNodes(DeclaredConstructor(class).body.statements, 1, <<>>,
                         pushIndent(NewEmitter)).text)

(* C18: the text of a class that has been lowered holds a line function C.constructor(...) if and
   only if the class declares a constructor or has an initialized instance
   field, and then exactly one; after that line come the assignments
   self.p = p of the constructor's parameters that carry a modifier, then the
   assignments self.field = EXPR of the initialized non-static fields in
   declaration order, then the lowered body of the declared constructor, then
   end; no static field is assigned between that line and its end. *)
C18_ConstructorOrder ==
    (pos >= 2 /\ file.statements[1].kind = "ClassDeclaration") =>
        LET class == file.statements[1]
            lines == Lines(result)
            headers == {h \in DOMAIN lines : IsConstructorHeader(lines[h])}
            assignments == ConstructorAssignments(class)
            body == ConstructorBodyLines(class)
        IN  /\ Cardinality(headers)
                 = IF \/ \E i \in DOMAIN class.members :
                            class.members[i].kind = "Constructor"
                      \/ \E i \in DOMAIN class.members :
                            IsInitializedInstanceField(class.members[i])
                   THEN 1 ELSE 0
            /\ \A h \in headers :
                  /\ h + Len(assignments) + Len(body) + 1 <= Len(lines)
                  /\ \A k \in DOMAIN assignments :
                        /\ Flatten(Body(lines[h + k])) = assignments[k]
                        /\ Depth(lines[h + k]) = Depth(lines[h]) + 1
                  /\ \A k \in DOMAIN body :
                        lines[h + Len(assignments) + k] = body[k]
                  /\ lines[h + Len(assignments) + Len(body) + 1] = <<"end">>
                  /\ \A k \in 1..(Len(assignments) + Len(body)) :
                        \A i \in DOMAIN class.members :
                            IsStaticField(class.members[i]) =>
                                ~(/\ Len(Body(lines[h + k])) >= 2
                                  /\ Body(lines[h + k])[1] = "self."
                                  /\ Body(lines[h + k])[2]
                                       = class.members[i].name.escapedText)

C18_Witness ==
    /\ pos = 2
    /\ file.statements[1]
         = ClassDeclaration("C", <<>>, <<StaticZ, FieldA, ConstructorWithFields>>, {})
    /\ Flatten(SubSeq(result, 32, Len(result)))
         = "C.z = 3\nfunction C.constructor(self,p,q,r)\n    self.p = p\n"
             \o "    self.r = r\n    self.a = 1\n    f()\nend\n"

-----------------------------------------------------------------------------
(* Breaks in loops and in clauses *)

\* What the breaks in a node are to be lowered to, in source order: "goto"
\* for a break whose nearest enclosing loop or switch is a switch, "break"
\* for the others.  `nearest` is "loop", "switch" or "none".
RECURSIVE BreaksOf(_, _)
RECURSIVE BreaksOfAll(_, _)
BreaksOfAll(nodes, nearest) ==
    IF nodes = <<>> THEN <<>>
    ELSE BreaksOf(Head(nodes), nearest) \o BreaksOfAll(Tail(nodes), nearest)

BreaksOf(node, nearest) ==
    CASE node.kind = "BreakStatement" ->
            <<IF nearest = "switch" THEN "goto" ELSE "break">>
      [] node.kind = "WhileStatement" -> BreaksOf(node.statement, "loop")
      [] node.kind = "SwitchStatement" ->
            BreaksOfAll(node.caseBlock.clauses, "switch")
      [] node.kind \in {"CaseClause", "DefaultClause", "Block"} ->
            BreaksOfAll(node.statements, nearest)
      [] node.kind = "IfStatement" -> BreaksOf(node.thenStatement, nearest)
      [] OTHER -> <<>>

\* What the lines of the text that lower a break are, in order.
RECURSIVE BreakLines(_)
BreakLines(lines) ==
    IF lines = <<>> THEN <<>>
    ELSE (IF Body(Head(lines)) = <<"break">> THEN <<"break">>
          ELSE IF IsGoto(Head(lines), "switchDone") THEN <<"goto">>
          ELSE <<>>)
           \o BreakLines(Tail(lines))

(* C19: in the output of a successful translation a break is the line break
   when its nearest enclosing loop or switch is a loop, also when that loop
   stands in a clause of a switch, and it is a line goto switchDone<k> only
   when its nearest enclosing loop or switch is a switch. *)
C19_BreakInLoopStaysBreak ==
    status = "returned" =>
        BreakLines(Lines(output)) = BreaksOfAll(file.statements, "none")
====
